---- MODULE Spec2Model ----
(***************************************************************************)
(* Model of the Discord message harvester of docs_social/social_capture:   *)
(* DiscordClient._date_to_snowflake, _rate_limit, _make_request (with the  *)
(* urllib3 Retry policy mounted on the session), get_messages and          *)
(* get_messages_batch, test_connection and get_channel_info, and of the    *)
(* capture script scripts/capture_discord.py that drives them.             *)
(*                                                                         *)
(* Time is counted in half seconds: 1.0 s = 2, 2.0 s = 4, 2.5 s = 5.       *)
(* A snowflake n is written <<n \div 2^22, n % 2^22>>, i.e. the pair       *)
(* <<milliseconds since the Discord epoch, low 22 bits>>; the order of the *)
(* integers is the lexicographic order of the pairs.                       *)
(***************************************************************************)
EXTENDS Integers, Sequences, FiniteSets, TLC

VARIABLES
    channel,            \* the remote channel history: a set of message ids
    configured_delay,   \* rate_limit_delay argument of __init__
    rate_limit_delay,   \* self.rate_limit_delay
    elapsed,            \* time.time() - self.last_request_time, saturated at Far
    sleep_left,         \* remaining time of the sleep in progress
    total_limit, batch_size, after_date, before_date,   \* arguments of get_messages_batch
    batch_arg,          \* batch_size as the caller passed it
    after_snowflake, before_snowflake,
    all_messages, before_id, current_batch_size, after_param,
    messages,           \* the page returned by get_messages
    retries_left,       \* what is left of Retry.total in the current session.request
    attempts,           \* HTTP attempts sent for the current get_messages call
    pc,                 \* position of the harvest
    outcome,            \* "none", "returned" or "raised"
    result,             \* the list returned by get_messages_batch
    reason,             \* which exit of the loop ended the harvest
    pages,              \* the pages kept so far, in fetch order
    fetch_failed,       \* the last get_messages call ended in its except branch
    only429,            \* every attempt of the current request was answered 429
    throttled,          \* some attempt of this harvest was answered 429
    hard_fail,          \* the platform answered 403, or 429 more than RetryTotal times in a row
    requests,           \* get_messages calls issued by this harvest
    asked,              \* the limit passed to each of these calls, in order
    lastGap,            \* time between the two latest permitted turns (saturated)
    slept,              \* the latest permitted turn had to sleep
    run,                \* 1 for the first harvest of the client, 2 for the second
    prev,               \* outcome of the first harvest
    call,               \* the public method of the client that is running
    last_status,        \* status of the latest HTTP answer to the current request
    sent,               \* query parameters of each get_messages request, in order
    raw_defect,         \* the platform's answer carries a record without an id
    info,               \* the dict returned by test_connection / get_channel_info
    channels,           \* config.yaml: discord.channels
    channel_index,      \* i: position of the capture loop in enabled_channels
    results,            \* the results list of the capture script
    faults,             \* names of the channels whose capture failed
    spc,                \* position of the capture script
    ret,                \* how capture_discord_channels ended
    exit_code,          \* argument of sys.exit
    since_retry,        \* time since the latest retry attempt was sent (saturated)
    tasks,              \* the harvest tasks that share the client: position,
                        \* remaining sleep and permitted turns of each
    to_format,          \* the list object handed to format_messages_markdown
    given,              \* what that list held when it was handed over
    blank,              \* messages without content, attachments and embeds
    markdown,           \* the messages of the rendered text, in its order
    fpc                 \* position of the format_messages_markdown call

vars == <<channel, configured_delay, rate_limit_delay, elapsed, sleep_left,
          total_limit, batch_size, after_date, before_date,
          after_snowflake, before_snowflake,
          all_messages, before_id, current_batch_size, after_param, messages,
          retries_left, attempts, pc, outcome, result, reason, pages,
          fetch_failed, only429, throttled, hard_fail, requests, asked, lastGap,
          slept,
          run, prev,
          batch_arg, call, last_status, sent, raw_defect, info,
          channels, channel_index, results, faults, spc, ret, exit_code,
          since_retry, tasks, to_format, given, blank, markdown, fpc>>

None == <<>>            \* None where a snowflake or a page is expected
NoLimit == -1           \* total_limit = None
NoDate == -1            \* after_date / before_date = None
BadDate == -2           \* a date string that strptime rejects
NoId == 0               \* a channel entry without channel_id
NoExit == -1            \* the process has not exited

----------------------------------------------------------------------------
(* Bounds *)

MaxBudget == 2          \* total_limit ranges over NoLimit and 0..MaxBudget
MaxBatch == 2           \* batch_size ranges over 1..MaxBatch
MaxDay == 1             \* window dates are the days 0..MaxDay after the epoch
MaxAttempts == 6        \* cap of the attempts counter
Far == 6                \* saturation of elapsed: "longer ago than any delay"
MaxChannels == 2        \* config.yaml lists at most this many channels
MaxTurns == 2           \* page requests of each of the concurrent harvest tasks

----------------------------------------------------------------------------
(* Program constants *)

MinDelay == 4           \* max(rate_limit_delay, 2.0)
DefaultDelay == 5       \* rate_limit_delay: float = 2.5
SafetyDelay == 2        \* asyncio.sleep(1.0)
RetryTotal == 3         \* Retry(total=3, ...)
MaxPage == 100          \* min(limit, 100), min(batch_size, 100)
MsPerDay == 86400000    \* total_seconds() * 1000 of one day
LastSecondMs == 86399000 \* hour=23, minute=59, second=59, in milliseconds
status_forcelist == {429, 500, 502, 503, 504}
CaptureBatch == 50      \* batch_size=50 of the capture script
DefaultMaxHistory == 500 \* channel_config.get('max_history', 500)

Min(a, b) == IF a < b THEN a ELSE b
Max(a, b) == IF a > b THEN a ELSE b

----------------------------------------------------------------------------
(* Temporal identifier codec *)

\* timestamp_ms << 22
ShiftLeft22(timestamp_ms) == <<timestamp_ms, 0>>

\* int(a) < int(b) on snowflakes
IdLT(a, b) == a[1] < b[1] \/ (a[1] = b[1] /\ a[2] < b[2])
IdGE(a, b) == ~IdLT(a, b)
IdLE(a, b) == ~IdLT(b, a)

\* mutation: a malformed date is read as the day of the epoch
date_to_snowflake_Lenient(date_str) ==
    IF date_str = BadDate THEN ShiftLeft22(0)
    ELSE ShiftLeft22(date_str * MsPerDay)

\* _date_to_snowflake: midnight UTC of the date, None for a malformed date
date_to_snowflake(date_str) ==
    IF date_str = BadDate THEN None
    ELSE ShiftLeft22(date_str * MsPerDay)

\* mutation: the upper bound is midnight of the next day
before_date_to_snowflake_NextDay(date_str) ==
    IF date_str = BadDate THEN None
    ELSE ShiftLeft22((date_str + 1) * MsPerDay)

\* the before_date branch of get_messages_batch: 23:59:59 UTC of the date
before_date_to_snowflake(date_str) ==
    IF date_str = BadDate THEN None
    ELSE ShiftLeft22(date_str * MsPerDay + LastSecondMs)

----------------------------------------------------------------------------
(* Inputs *)

Dates == 0..MaxDay
DateArgs == {NoDate, BadDate} \cup Dates
Budgets == {NoLimit} \cup (0..MaxBudget)
BatchSizes == (1..MaxBatch) \cup {MaxPage + 50}
\* limit arguments of a direct get_messages call (5 in scripts/test_discord.py)
Limits == {1, 5, MaxPage + 50}
DelayArgs == {DefaultDelay - 3, DefaultDelay}

\* candidate message ids: noon of day 0, the first instant of day 1, the last
\* second of day 1, and one sequence number later
IdPool == { <<43200000, 0>>,
            <<MsPerDay, 0>>,
            <<MsPerDay + LastSecondMs, 0>>,
            <<MsPerDay + LastSecondMs, 1>> }

\* remote histories of the channels named in config.yaml
Histories == { {}, {<<43200000, 0>>, <<MsPerDay, 0>>} }

\* one entry of discord.channels; `name` is its position in the file and
\* `remote` the history the platform holds for its channel_id
ChannelConfigs(k) ==
    [name : {k}, enabled : BOOLEAN, channel_id : {NoId, k},
     max_history : {DefaultMaxHistory}, remote : Histories]

ConfigFiles ==
    UNION { {q \in [1..n -> UNION {ChannelConfigs(k) : k \in 1..n}] :
                \A k \in 1..n : q[k].name = k} : n \in 0..MaxChannels }

----------------------------------------------------------------------------
(* The platform: GET /channels/{id}/messages?limit=&before=&after= *)

Newest(S) == CHOOSE m \in S : \A x \in S : IdLE(x, m)
Oldest(S) == CHOOSE m \in S : \A x \in S : IdLE(m, x)

RECURSIVE NewestFirst(_, _)
\* the n newest ids of S, newest first
NewestFirst(S, n) ==
    IF S = {} \/ n <= 0 THEN <<>>
    ELSE <<Newest(S)>> \o NewestFirst(S \ {Newest(S)}, n - 1)

RECURSIVE OldestSet(_, _)
\* the n oldest ids of S
OldestSet(S, n) ==
    IF S = {} \/ n <= 0 THEN {}
    ELSE {Oldest(S)} \cup OldestSet(S \ {Oldest(S)}, n - 1)

\* the page the platform answers with: newest first; `before` and `after`
\* are exclusive, and `after` selects the oldest messages newer than it
PlatformPage(ch, limit, before, after) ==
    LET older == IF before = None THEN ch ELSE {m \in ch : IdLT(m, before)}
        newer == IF after = None THEN older ELSE {m \in older : IdLT(after, m)}
    IN  IF after = None THEN NewestFirst(newer, limit)
        ELSE CHOOSE page \in {NewestFirst(chosen, limit) :
                                  chosen \in {OldestSet(newer, limit)}} : TRUE

\* the records of the answer as the platform sends them; with `defect` the
\* newest record comes without its id
RawPage(page, defect) ==
    IF defect /\ page # <<>> THEN <<None>> \o Tail(page) ELSE page

----------------------------------------------------------------------------
(* Pure helpers of the client *)

\* mutation: the configured delay is taken as it is
ClampDelay_Unclamped(d) == d

\* __init__: self.rate_limit_delay = max(rate_limit_delay, 2.0)
ClampDelay(d) == Max(d, MinDelay)

\* mutation: a budget of 0 counts as a budget
HasBudget_ZeroCounts(tl) == tl # NoLimit /\ tl >= 0

\* `if total_limit and total_limit > 0`
HasBudget(tl) == tl # NoLimit /\ tl # 0 /\ tl > 0

\* mutation: a message exactly at the bound is taken as older than it
Keeps_Strict(msg, bound) == IdLT(bound, msg)

\* mutation: the date filter keeps every message
Keeps_All(msg, bound) == TRUE

\* the test of the date filter: int(msg['id']) >= int(after_snowflake)
Keeps(msg, bound) == IdGE(msg, bound)

RECURSIVE KeptPrefix(_, _)
\* the messages appended to filtered_messages before the loop over the page
\* meets a message below the bound (or ends)
KeptPrefix(msgs, bound) ==
    IF msgs = <<>> THEN <<>>
    ELSE IF Keeps(Head(msgs), bound)
         THEN <<Head(msgs)>> \o KeptPrefix(Tail(msgs), bound)
         ELSE <<>>

\* mutation: the last listed status is handed back as a response
SessionOutcome_NoRaise(status, left) ==
    IF status \in status_forcelist /\ left > 0 THEN "retry" ELSE "response"

\* mutation: a listed status is not retried
SessionOutcome_NoRetry(status, left) ==
    IF status \in status_forcelist THEN "raise" ELSE "response"

\* urllib3 Retry(total=3, status_forcelist=[429, 500, 502, 503, 504]) inside
\* session.request: a listed status is retried while retries are left, and
\* raises RetryError (raise_on_status) once they are used up
SessionOutcome(status, left) ==
    IF status \in status_forcelist
    THEN IF left > 0 THEN "retry" ELSE "raise"
    ELSE "response"

\* _make_request on the response that session.request returned
MakeRequestOutcome(status) ==
    IF status = 429 THEN "recurse"
    ELSE IF status >= 400 THEN "raise"
    ELSE "return"

\* mutation: the exception is passed on
GetMessagesExcept_Raise == "raise"

\* get_messages: `except Exception` logs and returns []
GetMessagesExcept == "return_empty"

\* mutation: the remaining budget is ignored
CurrentBatchSize_Full(tl, bs, kept) == bs

\* current_batch_size of one iteration, `kept` messages being collected so far
CurrentBatchSize(tl, bs, kept) ==
    IF HasBudget(tl) THEN Min(bs, tl - kept) ELSE bs

\* mutation: the cursor is the first message of the page
NextCursor_First(msgs) == msgs[1]

\* before_id = messages[-1]['id']
NextCursor(msgs) == msgs[Len(msgs)]

\* mutation: a short page does not end the harvest
PartialBatch_Never(msgs, size) == FALSE

\* `if len(messages) < current_batch_size`
PartialBatch(msgs, size) == Len(msgs) < size

\* mutation: the limit is sent as it was passed
ClampLimit_Unclamped(limit) == limit

\* get_messages: limit = min(limit, 100)
ClampLimit(limit) == Min(limit, MaxPage)

\* get_messages: params = {'limit': limit}, plus `before` and `after` when given
Params(limit, before, after) ==
    [limit |-> ClampLimit(limit), before |-> before, after |-> after]

\* get_messages: every record of the answer is turned into a processed
\* message whose id is msg.get('id'), and appended
Processed(raw) == [k \in 1..Len(raw) |-> raw[k]]

\* mutation: the lower bound is sent with every page request
AfterParam_Always(kept, lower) == lower

\* after_param = after_snowflake if len(all_messages) == 0 and after_snowflake else None
AfterParam(kept, lower) == IF kept = 0 /\ lower # None THEN lower ELSE None

\* mutation: the exception is passed on
InfoExcept_Raise == "raise"

\* test_connection, get_channel_info: `except Exception` returns
\* {'success': False, 'error': str(e)}
InfoExcept == "return_failure"

InfoCalls == {"test_connection", "get_channel_info"}
NoInfo == [success |-> FALSE, error |-> 0]

Statuses == {200, 403, 429}

----------------------------------------------------------------------------
(* State machine *)

Tasks == {1, 2}
NoTasks == [t \in Tasks |-> [pc |-> "call", sleep_left |-> 0, turns |-> 0]]

NoPrev == [result |-> <<>>, outcome |-> "none", reason |-> "none",
           throttled |-> FALSE, hard_fail |-> FALSE]

Init ==
    /\ channel \in SUBSET IdPool
    /\ configured_delay \in DelayArgs
    /\ rate_limit_delay = ClampDelay(configured_delay)
    /\ elapsed = Far
    /\ sleep_left = 0
    /\ total_limit \in Budgets
    /\ batch_size \in BatchSizes
    /\ after_date \in DateArgs
    /\ before_date \in DateArgs
    /\ after_snowflake = None
    /\ before_snowflake = None
    /\ all_messages = <<>>
    /\ before_id = None
    /\ current_batch_size = 0
    /\ after_param = None
    /\ messages = <<>>
    /\ retries_left = RetryTotal
    /\ attempts = 0
    /\ pc = "idle"
    /\ outcome = "none"
    /\ result = <<>>
    /\ reason = "none"
    /\ pages = <<>>
    /\ fetch_failed = FALSE
    /\ only429 = FALSE
    /\ throttled = FALSE
    /\ hard_fail = FALSE
    /\ requests = 0
    /\ asked = <<>>
    /\ lastGap = Far
    /\ slept = FALSE
    /\ run = 1
    /\ prev = NoPrev
    /\ batch_arg = batch_size
    /\ call = "none"
    /\ last_status = 0
    /\ sent = <<>>
    /\ raw_defect = FALSE
    /\ info = NoInfo
    /\ channels = <<>>
    /\ channel_index = 0
    /\ results = <<>>
    /\ faults = {}
    /\ spc = "off"
    /\ ret = "none"
    /\ exit_code = NoExit
    /\ since_retry = Far
    /\ tasks = NoTasks
    /\ to_format = <<>>
    /\ given = <<>>
    /\ blank = {}
    /\ markdown = <<>>
    /\ fpc = "none"

client == <<channel, configured_delay, rate_limit_delay>>
args == <<total_limit, after_date, before_date, batch_arg>>
governor == <<elapsed, sleep_left, lastGap, slept, since_retry>>
transport == <<retries_left, attempts, only429, last_status>>
ghost == <<throttled, hard_fail>>
rendering == <<to_format, given, blank, markdown, fpc>>
caller == <<run, prev, tasks, rendering>>
api == <<info, raw_defect>>
script == <<channels, channel_index, results, faults, spc, ret, exit_code>>

\* get_messages_batch up to the loop: clamp the batch size, translate the window
StartBatch ==
    /\ pc = "idle"
    /\ call' = "get_messages_batch"
    /\ all_messages' = <<>>
    /\ batch_size' = Min(batch_size, MaxPage)
    /\ before_id' = None
    /\ after_snowflake' = IF after_date # NoDate THEN date_to_snowflake(after_date) ELSE None
    /\ IF after_date # NoDate /\ date_to_snowflake(after_date) = None
       THEN /\ before_snowflake' = None
            /\ pc' = "done" /\ outcome' = "returned" /\ result' = <<>>
            /\ reason' = "invalid_date"
       ELSE IF before_date # NoDate /\ before_date_to_snowflake(before_date) = None
       THEN /\ before_snowflake' = None
            /\ pc' = "done" /\ outcome' = "returned" /\ result' = <<>>
            /\ reason' = "invalid_date"
       ELSE /\ before_snowflake' = IF before_date # NoDate
                                   THEN before_date_to_snowflake(before_date) ELSE None
            /\ pc' = "loop" /\ UNCHANGED <<outcome, result, reason>>
    /\ UNCHANGED <<client, args, governor, transport, caller, current_batch_size,
                   after_param, messages, pages, fetch_failed, ghost, requests, asked,
                   sent, api, script>>

\* top of the while loop: the budget check, the page size, the `after`
\* parameter, and the call of get_messages
LoopTop ==
    /\ pc = "loop"
    /\ IF HasBudget(total_limit) /\ total_limit - Len(all_messages) <= 0
       THEN /\ pc' = "done" /\ outcome' = "returned" /\ result' = all_messages
            /\ reason' = "budget_reached"
            /\ UNCHANGED <<current_batch_size, after_param, requests, asked, transport,
                           fetch_failed, sent>>
       ELSE /\ current_batch_size' =
                   CurrentBatchSize(total_limit, batch_size, Len(all_messages))
            /\ after_param' = AfterParam(Len(all_messages), after_snowflake)
            /\ requests' = requests + 1
            /\ asked' = Append(asked, CurrentBatchSize(total_limit, batch_size,
                                                        Len(all_messages)))
            /\ sent' = Append(sent,
                              Params(CurrentBatchSize(total_limit, batch_size,
                                                      Len(all_messages)),
                                     before_id,
                                     AfterParam(Len(all_messages), after_snowflake)))
            /\ attempts' = 0
            /\ retries_left' = RetryTotal
            /\ only429' = TRUE
            /\ last_status' = 0
            /\ fetch_failed' = FALSE
            /\ pc' = "rate_limit"
            /\ UNCHANGED <<outcome, result, reason>>
    /\ UNCHANGED <<client, args, governor, caller, batch_size, after_snowflake,
                   before_snowflake, all_messages, before_id, messages, pages,
                   ghost, call, api, script>>

\* _rate_limit up to its sleep; without a sleep the turn is permitted at once
RateLimit ==
    /\ pc = "rate_limit"
    /\ IF elapsed < rate_limit_delay
       THEN /\ sleep_left' = rate_limit_delay - elapsed
            /\ pc' = "rl_sleep"
            /\ UNCHANGED <<elapsed, lastGap, slept>>
       ELSE /\ lastGap' = elapsed
            /\ elapsed' = 0
            /\ slept' = FALSE
            /\ pc' = "send"
            /\ UNCHANGED sleep_left
    /\ UNCHANGED <<client, args, transport, caller, batch_size, after_snowflake,
                   before_snowflake, all_messages, before_id, current_batch_size,
                   after_param, messages, outcome, result, reason, pages,
                   fetch_failed, ghost, requests, asked, call, sent, api, script,
                   since_retry>>

\* _rate_limit after its sleep: self.last_request_time = time.time()
RateLimitWake ==
    /\ pc = "rl_sleep"
    /\ sleep_left = 0
    /\ lastGap' = elapsed
    /\ elapsed' = 0
    /\ slept' = TRUE
    /\ pc' = "send"
    /\ UNCHANGED <<client, args, transport, caller, sleep_left, batch_size,
                   after_snowflake, before_snowflake, all_messages, before_id,
                   current_batch_size, after_param, messages, outcome, result,
                   reason, pages, fetch_failed, ghost, requests, asked, call, sent,
                   api, script, since_retry>>

\* half a second passes while the client sleeps, waits for the platform, or
\* the transport waits before it sends a retry
Tick ==
    /\ \/ pc \in {"rl_sleep", "safety_sleep"} /\ sleep_left > 0
       \/ pc = "send" /\ elapsed < Far
    /\ elapsed' = Min(elapsed + 1, Far)
    /\ sleep_left' = Max(sleep_left - 1, 0)
    /\ since_retry' = Min(since_retry + 1, Far)
    /\ UNCHANGED <<client, args, transport, caller, lastGap, slept,
                   batch_size, after_snowflake, before_snowflake, all_messages,
                   before_id, current_batch_size, after_param, messages, pc,
                   outcome, result, reason, pages, fetch_failed, ghost,
                   requests, asked, call, sent, api, script>>

\* the except branch of get_messages, reached by any exception of _make_request
FetchFails ==
    IF GetMessagesExcept = "return_empty"
    THEN /\ messages' = <<>>
         /\ fetch_failed' = TRUE
         /\ pc' = "page"
         /\ UNCHANGED <<outcome, result, reason>>
    ELSE /\ messages' = <<>>
         /\ fetch_failed' = TRUE
         /\ pc' = "done" /\ outcome' = "raised" /\ result' = <<>>
         /\ reason' = "raised"

\* one HTTP attempt of get_messages -> _make_request -> session.request, and
\* what the client does with the platform's answer
Attempt(status) ==
    /\ pc = "send"
    /\ attempts < MaxAttempts
    /\ attempts' = attempts + 1
    /\ last_status' = status
    /\ since_retry' = IF attempts >= 1 THEN 0 ELSE since_retry
    /\ only429' = (only429 /\ status = 429)
    /\ throttled' = (throttled \/ status = 429)
    /\ hard_fail' = (hard_fail \/ status = 403
                               \/ (status = 429 /\ attempts >= RetryTotal))
    /\ IF SessionOutcome(status, retries_left) = "retry"
       THEN /\ retries_left' = retries_left - 1
            /\ UNCHANGED <<messages, fetch_failed, pc, outcome, result, reason>>
       ELSE IF SessionOutcome(status, retries_left) = "raise"
       THEN /\ FetchFails
            /\ UNCHANGED retries_left
       ELSE IF MakeRequestOutcome(status) = "recurse"
       THEN /\ retries_left' = RetryTotal
            /\ UNCHANGED <<messages, fetch_failed, pc, outcome, result, reason>>
       ELSE IF MakeRequestOutcome(status) = "raise"
       THEN /\ FetchFails
            /\ UNCHANGED retries_left
       ELSE /\ messages' =
                   IF call \in InfoCalls THEN <<>>
                   ELSE LET params == sent[Len(sent)]
                        IN  Processed(RawPage(PlatformPage(channel, params.limit,
                                                           params.before, params.after),
                                              raw_defect))
            /\ pc' = "page"
            /\ UNCHANGED <<retries_left, fetch_failed, outcome, result, reason>>
    /\ UNCHANGED <<client, args, elapsed, sleep_left, lastGap, slept, caller,
                   batch_size, after_snowflake,
                   before_snowflake, all_messages, before_id, current_batch_size,
                   after_param, pages, requests, asked, call, sent, api, script>>

\* the loop body after get_messages returned: the empty-page exit, the date
\* filter with its early return, and the extension of all_messages
ProcessPage ==
    /\ pc = "page"
    /\ call = "get_messages_batch"
    /\ IF messages = <<>>
       THEN /\ pc' = "done" /\ outcome' = "returned" /\ result' = all_messages
            /\ reason' = IF ~fetch_failed THEN "end_of_history"
                         ELSE IF pages = <<>> THEN "first_page_failed" ELSE "aborted"
            /\ UNCHANGED <<all_messages, before_id, pages, sleep_left, messages>>
       ELSE IF after_snowflake # None
               /\ Len(KeptPrefix(messages, after_snowflake)) < Len(messages)
       THEN /\ all_messages' = all_messages \o KeptPrefix(messages, after_snowflake)
            /\ pages' = IF KeptPrefix(messages, after_snowflake) = <<>> THEN pages
                        ELSE Append(pages, KeptPrefix(messages, after_snowflake))
            /\ pc' = "done" /\ outcome' = "returned"
            /\ result' = all_messages \o KeptPrefix(messages, after_snowflake)
            /\ reason' = "lower_bound_reached"
            /\ UNCHANGED <<before_id, sleep_left, messages>>
       ELSE /\ all_messages' = all_messages \o messages
            /\ before_id' = NextCursor(messages)
            /\ pages' = Append(pages, messages)
            /\ sleep_left' = SafetyDelay
            /\ pc' = "safety_sleep"
            /\ UNCHANGED <<outcome, result, reason, messages>>
    /\ UNCHANGED <<client, args, transport, caller, elapsed, lastGap, slept,
                   batch_size, after_snowflake, before_snowflake,
                   current_batch_size, after_param, fetch_failed, ghost,
                   requests, asked, call, sent, api, script, since_retry>>

\* after asyncio.sleep(1.0): the partial-batch exit, else the next iteration
AfterSafetyDelay ==
    /\ pc = "safety_sleep"
    /\ sleep_left = 0
    /\ IF PartialBatch(messages, current_batch_size)
       THEN /\ pc' = "done" /\ outcome' = "returned" /\ result' = all_messages
            /\ reason' = "end_of_history"
       ELSE /\ pc' = "loop"
            /\ UNCHANGED <<outcome, result, reason>>
    /\ UNCHANGED <<client, args, governor, transport, caller, batch_size,
                   after_snowflake, before_snowflake, all_messages, before_id,
                   current_batch_size, after_param, messages, pages, fetch_failed,
                   ghost, requests, asked, call, sent, api, script>>

\* the caller harvests again with the same client and the same arguments
Again ==
    /\ pc = "done"
    /\ run = 1
    /\ run' = 2
    /\ prev' = [result |-> result, outcome |-> outcome, reason |-> reason,
                throttled |-> throttled, hard_fail |-> hard_fail]
    /\ pc' = "idle"
    /\ outcome' = "none" /\ result' = <<>> /\ reason' = "none"
    /\ pages' = <<>> /\ messages' = <<>>
    /\ fetch_failed' = FALSE /\ throttled' = FALSE /\ hard_fail' = FALSE
    /\ requests' = 0
    /\ asked' = <<>>
    /\ sent' = <<>>
    /\ UNCHANGED <<client, args, governor, transport, batch_size, after_snowflake,
                   before_snowflake, all_messages, before_id, current_batch_size,
                   after_param, call, api, script, tasks, rendering>>

Next ==
    \/ StartBatch
    \/ LoopTop
    \/ RateLimit
    \/ RateLimitWake
    \/ Tick
    \/ \E status \in Statuses : Attempt(status)
    \/ ProcessPage
    \/ AfterSafetyDelay

Spec == Init /\ [][Next]_vars

\* the event loop runs whatever step is ready, every sleep ends, and the
\* platform eventually answers the request that was sent
FairInit ==
    /\ Init
    /\ configured_delay = DefaultDelay - 3

FairSpec == FairInit /\ [][Next]_vars /\ WF_vars(Next)

\* two harvests of one channel with the same arguments, one after the other
PairInit ==
    /\ Init
    /\ configured_delay = DefaultDelay
    /\ before_date = NoDate
    /\ after_date # BadDate

PairNext == Next \/ Again

PairSpec == PairInit /\ [][PairNext]_vars

\* the answers of a platform that also fails with a server error
RetriedStatuses == Statuses \cup {500}

\* one harvest without budget and window against such a platform
TransportInit ==
    /\ Init
    /\ configured_delay = DefaultDelay
    /\ total_limit = NoLimit
    /\ after_date = NoDate
    /\ before_date = NoDate

TransportNext ==
    \/ StartBatch
    \/ LoopTop
    \/ RateLimit
    \/ RateLimitWake
    \/ Tick
    \/ \E status \in RetriedStatuses : Attempt(status)
    \/ ProcessPage
    \/ AfterSafetyDelay

TransportSpec == TransportInit /\ [][TransportNext]_vars

----------------------------------------------------------------------------
(* The other public methods of the client, called directly *)

\* the loop state of get_messages_batch
harvest == <<batch_size, after_snowflake, before_snowflake, all_messages,
             before_id, current_batch_size, after_param, pages, requests>>

\* a public method begins: nothing is sent and nothing is returned yet
StartRequest(method) ==
    /\ call' = method
    /\ attempts' = 0
    /\ retries_left' = RetryTotal
    /\ only429' = TRUE
    /\ last_status' = 0
    /\ fetch_failed' = FALSE
    /\ outcome' = "none" /\ result' = <<>> /\ info' = NoInfo
    /\ messages' = <<>>
    /\ throttled' = FALSE /\ hard_fail' = FALSE
    /\ pc' = "rate_limit"

\* test_connection(): GET /users/@me
TestConnection ==
    /\ pc \in {"idle", "api_done"}
    /\ StartRequest("test_connection")
    /\ asked' = <<>> /\ sent' = <<>> /\ raw_defect' = FALSE
    /\ UNCHANGED <<client, args, governor, caller, harvest, reason, script>>

\* get_channel_info(channel_id): GET /channels/{channel_id}
GetChannelInfo ==
    /\ pc \in {"idle", "api_done"}
    /\ StartRequest("get_channel_info")
    /\ asked' = <<>> /\ sent' = <<>> /\ raw_defect' = FALSE
    /\ UNCHANGED <<client, args, governor, caller, harvest, reason, script>>

\* get_messages(channel_id, limit) called on its own, as scripts/test_discord.py
\* does; `defect` says whether the platform's answer lacks an id
GetMessages(limit, defect) ==
    /\ pc \in {"idle", "api_done"}
    /\ StartRequest("get_messages")
    /\ asked' = <<limit>>
    /\ sent' = <<Params(limit, None, None)>>
    /\ raw_defect' = defect
    /\ UNCHANGED <<client, args, governor, caller, harvest, reason, script>>

\* get_messages hands its list to the caller
GetMessagesReturn ==
    /\ pc = "page"
    /\ call = "get_messages"
    /\ result' = messages
    /\ outcome' = "returned"
    /\ pc' = "api_done"
    /\ UNCHANGED <<client, args, governor, transport, caller, harvest, messages,
                   reason, fetch_failed, ghost, asked, sent, call, api, script>>

Enabled(c) == c.enabled
HasId(c) == c.channel_id # NoId

\* enabled_channels = [c for c in channels if c.get('enabled', True)]
enabled_channels == SelectSeq(channels, Enabled)

\* test_connection / get_channel_info after _make_request returned or raised
InfoReturn ==
    /\ pc = "page"
    /\ call \in InfoCalls
    /\ IF fetch_failed /\ InfoExcept = "raise"
       THEN /\ outcome' = "raised"
            /\ info' = NoInfo
       ELSE /\ outcome' = "returned"
            /\ info' = [success |-> ~fetch_failed,
                        error |-> IF fetch_failed THEN last_status ELSE 0]
    /\ faults' = IF fetch_failed /\ spc = "info"
                 THEN faults \cup {enabled_channels[channel_index].name}
                 ELSE faults
    /\ pc' = "api_done"
    /\ UNCHANGED <<client, args, governor, transport, caller, harvest, messages,
                   result, reason, fetch_failed, ghost, asked, sent, call,
                   raw_defect, channels, channel_index, results, spc, ret,
                   exit_code>>

\* a caller of the public methods: one harvest, or any sequence of direct calls
ApiInit ==
    /\ Init
    /\ configured_delay = DefaultDelay
    /\ total_limit = NoLimit
    /\ after_date = NoDate
    /\ before_date = NoDate

ApiNext ==
    \/ Next
    \/ TestConnection
    \/ GetChannelInfo
    \/ \E limit \in Limits, defect \in BOOLEAN : GetMessages(limit, defect)
    \/ GetMessagesReturn
    \/ InfoReturn

ApiSpec == ApiInit /\ [][ApiNext]_vars

----------------------------------------------------------------------------
(* Two harvest tasks of one event loop on one client.  Of each harvest only *)
(* the steps that meet the governor are kept: the call of _rate_limit, its  *)
(* sleep, the request, and the safety delay before the next iteration.      *)

\* what the tasks share is the governor's record; the rest stays as it is
aside == <<client, args, sleep_left, slept, since_retry, transport, ghost, run,
           prev, harvest, messages, pc, outcome, result, reason, fetch_failed,
           asked, sent, call, api, script, rendering>>

\* _rate_limit up to its `await asyncio.sleep`, in task t
TaskRateLimit(t) ==
    /\ tasks[t].pc = "call"
    /\ tasks[t].turns < MaxTurns
    /\ IF elapsed < rate_limit_delay
       THEN /\ tasks' = [tasks EXCEPT ![t].pc = "rl_sleep",
                                      ![t].sleep_left = rate_limit_delay - elapsed]
            /\ UNCHANGED <<elapsed, lastGap>>
       ELSE /\ lastGap' = elapsed
            /\ elapsed' = 0
            /\ tasks' = [tasks EXCEPT ![t].pc = "send",
                                      ![t].turns = tasks[t].turns + 1]
    /\ UNCHANGED aside

\* _rate_limit after its sleep, in task t: self.last_request_time = time.time()
TaskWake(t) ==
    /\ tasks[t].pc = "rl_sleep"
    /\ tasks[t].sleep_left = 0
    /\ lastGap' = elapsed
    /\ elapsed' = 0
    /\ tasks' = [tasks EXCEPT ![t].pc = "send", ![t].turns = tasks[t].turns + 1]
    /\ UNCHANGED aside

\* task t sends its request, keeps the page and starts asyncio.sleep(1.0)
TaskRequest(t) ==
    /\ tasks[t].pc = "send"
    /\ tasks' = [tasks EXCEPT ![t].pc = "safety_sleep",
                              ![t].sleep_left = SafetyDelay]
    /\ UNCHANGED <<aside, elapsed, lastGap>>

\* task t after asyncio.sleep(1.0): the next iteration of its loop
TaskAfterSafetyDelay(t) ==
    /\ tasks[t].pc = "safety_sleep"
    /\ tasks[t].sleep_left = 0
    /\ tasks' = [tasks EXCEPT ![t].pc = "call"]
    /\ UNCHANGED <<aside, elapsed, lastGap>>

\* half a second passes for every task while some task sleeps
TaskTick ==
    /\ \E t \in Tasks : tasks[t].sleep_left > 0
    /\ elapsed' = Min(elapsed + 1, Far)
    /\ tasks' = [t \in Tasks |->
                    [tasks[t] EXCEPT !.sleep_left = Max(tasks[t].sleep_left - 1, 0)]]
    /\ UNCHANGED <<aside, lastGap>>

SharedInit ==
    /\ Init
    /\ total_limit = NoLimit
    /\ batch_size = 1
    /\ after_date = NoDate
    /\ before_date = NoDate

SharedNext ==
    \/ \E t \in Tasks : TaskRateLimit(t)
    \/ \E t \in Tasks : TaskWake(t)
    \/ \E t \in Tasks : TaskRequest(t)
    \/ \E t \in Tasks : TaskAfterSafetyDelay(t)
    \/ TaskTick

SharedSpec == SharedInit /\ [][SharedNext]_vars

----------------------------------------------------------------------------
(* format_messages_markdown *)

\* the sort key x['timestamp']: the creation time of the message as ISO-8601
\* text of one layout and offset, which compares as the instant it names
Timestamp(msg) == msg[1]

RECURSIVE InsertByTimestamp(_, _)
\* msg goes behind every message whose key is not greater (sorted is stable)
InsertByTimestamp(msgs, msg) ==
    IF msgs = <<>> THEN <<msg>>
    ELSE IF Timestamp(Head(msgs)) <= Timestamp(msg)
         THEN <<Head(msgs)>> \o InsertByTimestamp(Tail(msgs), msg)
         ELSE <<msg>> \o msgs

RECURSIVE SortByTimestamp(_)
SortByTimestamp(msgs) ==
    IF msgs = <<>> THEN <<>>
    ELSE InsertByTimestamp(SortByTimestamp(SubSeq(msgs, 1, Len(msgs) - 1)),
                           msgs[Len(msgs)])

\* mutation: the messages are rendered in the order of the list
sorted_messages_Unsorted(msgs) == msgs

\* sorted_messages = sorted(messages, key=lambda x: x['timestamp']): a new list
sorted_messages(msgs) == SortByTimestamp(msgs)

RECURSIVE Rendered(_, _)
\* the loop over sorted_messages: a message without content, attachments and
\* embeds is skipped, every other message adds its block to the text
Rendered(msgs, empty) ==
    IF msgs = <<>> THEN <<>>
    ELSE IF Head(msgs) \in empty THEN Rendered(Tail(msgs), empty)
         ELSE <<Head(msgs)>> \o Rendered(Tail(msgs), empty)

\* the lists a caller may hand over: any order, no message twice
MessageLists ==
    UNION { {l \in [1..n -> IdPool] : \A a, b \in 1..n : a # b => l[a] # l[b]}
            : n \in 0..Cardinality(IdPool) }

\* format_messages_markdown(messages, channel_info) up to its return
Format ==
    /\ fpc = "format"
    /\ markdown' = IF to_format = <<>> THEN <<>>
                   ELSE Rendered(sorted_messages(to_format), blank)
    /\ fpc' = "formatted"
    /\ UNCHANGED <<client, args, governor, transport, run, prev, tasks, harvest,
                   messages, pc, outcome, result, reason, fetch_failed, ghost,
                   asked, sent, call, api, script, to_format, given, blank>>

FormatInit ==
    /\ channel = {}
    /\ configured_delay = DefaultDelay
    /\ rate_limit_delay = ClampDelay(configured_delay)
    /\ elapsed = Far
    /\ sleep_left = 0
    /\ total_limit = NoLimit
    /\ batch_size = CaptureBatch
    /\ after_date = NoDate
    /\ before_date = NoDate
    /\ after_snowflake = None
    /\ before_snowflake = None
    /\ all_messages = <<>>
    /\ before_id = None
    /\ current_batch_size = 0
    /\ after_param = None
    /\ messages = <<>>
    /\ retries_left = RetryTotal
    /\ attempts = 0
    /\ pc = "idle"
    /\ outcome = "none"
    /\ result = <<>>
    /\ reason = "none"
    /\ pages = <<>>
    /\ fetch_failed = FALSE
    /\ only429 = FALSE
    /\ throttled = FALSE
    /\ hard_fail = FALSE
    /\ requests = 0
    /\ asked = <<>>
    /\ lastGap = Far
    /\ slept = FALSE
    /\ run = 1
    /\ prev = NoPrev
    /\ batch_arg = batch_size
    /\ call = "none"
    /\ last_status = 0
    /\ sent = <<>>
    /\ raw_defect = FALSE
    /\ info = NoInfo
    /\ channels = <<>>
    /\ channel_index = 0
    /\ results = <<>>
    /\ faults = {}
    /\ spc = "off"
    /\ ret = "none"
    /\ exit_code = NoExit
    /\ since_retry = Far
    /\ tasks = NoTasks
    /\ to_format \in MessageLists
    /\ given = to_format
    /\ blank \in SUBSET IdPool
    /\ markdown = <<>>
    /\ fpc = "format"

FormatNext == Format

FormatSpec == FormatInit /\ [][FormatNext]_vars

----------------------------------------------------------------------------
(* scripts/capture_discord.py *)

\* the state of the client, its position apart
clientState == <<client, args, governor, transport, caller, harvest, messages,
                 outcome, result, reason, fetch_failed, ghost, asked, sent, call,
                 api>>

\* mutation: the loop ends at the first channel that fails
NextIndex_StopOnError(index, status, n) ==
    IF status = "error" THEN n + 1 ELSE index + 1

\* `for i, channel_config in enumerate(enabled_channels, 1)`: whatever was
\* recorded for a channel, the loop goes on with the next one
NextIndex(index, status, n) == index + 1

\* mutation: every channel without an error counts as captured
Successful_NotError(res) ==
    Cardinality({k \in 1..Len(res) : res[k].status # "error"})

\* successful = len([r for r in results if r['status'] == 'success'])
Successful(res) ==
    Cardinality({k \in 1..Len(res) : res[k].status = "success"})

\* the __main__ block: sys.exit(0 if success else 1), 130 on
\* KeyboardInterrupt, 1 on any other exception
ExitCode(ending) ==
    IF ending = "interrupt" THEN 130
    ELSE IF ending = "exception" THEN 1
    ELSE IF ending = "true" THEN 0
    ELSE 1

CaptureInit ==
    /\ channels \in ConfigFiles
    /\ channel = {}
    /\ configured_delay = DefaultDelay
    /\ rate_limit_delay = ClampDelay(configured_delay)
    /\ elapsed = Far
    /\ sleep_left = 0
    /\ total_limit = NoLimit
    /\ batch_size = CaptureBatch
    /\ batch_arg = CaptureBatch
    /\ after_date = NoDate
    /\ before_date = NoDate
    /\ after_snowflake = None
    /\ before_snowflake = None
    /\ all_messages = <<>>
    /\ before_id = None
    /\ current_batch_size = 0
    /\ after_param = None
    /\ messages = <<>>
    /\ retries_left = RetryTotal
    /\ attempts = 0
    /\ pc = "script"
    /\ outcome = "none"
    /\ result = <<>>
    /\ reason = "none"
    /\ pages = <<>>
    /\ fetch_failed = FALSE
    /\ only429 = FALSE
    /\ throttled = FALSE
    /\ hard_fail = FALSE
    /\ requests = 0
    /\ asked = <<>>
    /\ lastGap = Far
    /\ slept = FALSE
    /\ run = 1
    /\ prev = NoPrev
    /\ call = "none"
    /\ last_status = 0
    /\ sent = <<>>
    /\ raw_defect = FALSE
    /\ info = NoInfo
    /\ channel_index = 0
    /\ results = <<>>
    /\ faults = {}
    /\ spc = "start"
    /\ ret = "none"
    /\ exit_code = NoExit
    /\ since_retry = Far
    /\ tasks = NoTasks
    /\ to_format = <<>>
    /\ given = <<>>
    /\ blank = {}
    /\ markdown = <<>>
    /\ fpc = "none"

\* capture_discord_channels up to its loop: .env, token and config.yaml are
\* missing (return False), unreadable (an exception) or present; without an
\* enabled channel the function returns False
Setup ==
    /\ spc = "start"
    /\ \E env \in {"ok", "missing", "broken"} :
          IF env = "missing"
          THEN /\ ret' = "false" /\ spc' = "returned"
               /\ UNCHANGED <<channel_index, results>>
          ELSE IF env = "broken"
          THEN /\ ret' = "exception" /\ spc' = "returned"
               /\ UNCHANGED <<channel_index, results>>
          ELSE IF channels = <<>> \/ enabled_channels = <<>>
          THEN /\ ret' = "false" /\ spc' = "returned"
               /\ UNCHANGED <<channel_index, results>>
          ELSE /\ channel_index' = 1
               /\ results' = <<>>
               /\ spc' = "loop"
               /\ UNCHANGED ret
    /\ UNCHANGED <<clientState, pc, channels, faults, exit_code>>

\* head of the loop over enabled_channels: the end of the list, an entry
\* without channel_id, or the call of get_channel_info
NextChannel ==
    /\ spc = "loop"
    /\ IF channel_index > Len(enabled_channels)
       THEN /\ spc' = "summary"
            /\ UNCHANGED <<clientState, pc, channel_index>>
       ELSE IF ~HasId(enabled_channels[channel_index])
       THEN /\ channel_index' = channel_index + 1
            /\ UNCHANGED <<clientState, pc, spc>>
       ELSE /\ channel' = enabled_channels[channel_index].remote
            /\ StartRequest("get_channel_info")
            /\ asked' = <<>> /\ sent' = <<>> /\ raw_defect' = FALSE
            /\ spc' = "info"
            /\ UNCHANGED <<configured_delay, rate_limit_delay, args, governor,
                           caller, harvest, reason, channel_index>>
    /\ UNCHANGED <<channels, results, faults, ret, exit_code>>

\* after get_channel_info: an error entry and `continue`, or the call of
\* get_messages_batch with max_history, batch_size=50 and no dates
AfterChannelInfo ==
    /\ spc = "info"
    /\ pc = "api_done"
    /\ IF outcome = "raised" \/ ~info.success
       THEN /\ results' = Append(results,
                                 [name |-> enabled_channels[channel_index].name,
                                  status |-> "error", message_count |-> 0])
            /\ channel_index' = NextIndex(channel_index, "error",
                                          Len(enabled_channels))
            /\ spc' = "loop"
            /\ pc' = "script"
            /\ UNCHANGED clientState
       ELSE /\ total_limit' = enabled_channels[channel_index].max_history
            /\ batch_size' = CaptureBatch
            /\ batch_arg' = CaptureBatch
            /\ after_date' = NoDate
            /\ before_date' = NoDate
            /\ pc' = "idle"
            /\ spc' = "harvest"
            /\ outcome' = "none" /\ result' = <<>> /\ reason' = "none"
            /\ pages' = <<>> /\ messages' = <<>>
            /\ fetch_failed' = FALSE /\ throttled' = FALSE /\ hard_fail' = FALSE
            /\ requests' = 0
            /\ asked' = <<>>
            /\ sent' = <<>>
            /\ UNCHANGED <<client, governor, transport, caller, after_snowflake,
                           before_snowflake, all_messages, before_id,
                           current_batch_size, after_param, call, api,
                           channel_index, results>>
    /\ UNCHANGED <<channels, faults, ret, exit_code>>

\* after get_messages_batch: the messages are formatted and written
\* (`written` is FALSE when that raises) and the channel's entry is appended
AfterHarvest ==
    /\ spc = "harvest"
    /\ pc = "done"
    /\ \E written \in BOOLEAN :
          LET status == IF outcome = "raised" THEN "error"
                        ELSE IF result = <<>> THEN "empty"
                        ELSE IF written THEN "success"
                        ELSE "error"
              name == enabled_channels[channel_index].name
          IN  /\ results' = Append(results,
                                   [name |-> name, status |-> status,
                                    message_count |-> IF status = "success"
                                                      THEN Len(result) ELSE 0])
              /\ faults' = IF outcome = "raised" \/ (result # <<>> /\ ~written)
                           THEN faults \cup {name} ELSE faults
              /\ channel_index' = NextIndex(channel_index, status,
                                            Len(enabled_channels))
    /\ spc' = "loop"
    /\ pc' = "script"
    /\ UNCHANGED <<clientState, channels, ret, exit_code>>

\* after the loop: return successful > 0
Summary ==
    /\ spc = "summary"
    /\ ret' = IF Successful(results) > 0 THEN "true" ELSE "false"
    /\ spc' = "returned"
    /\ UNCHANGED <<clientState, pc, channels, channel_index, results, faults,
                   exit_code>>

\* Ctrl-C while the loop is between two channels or the client sleeps
Interrupt ==
    /\ spc \in {"loop", "info", "harvest"}
    /\ spc = "loop" \/ pc \in {"rl_sleep", "safety_sleep"}
    /\ ret' = "interrupt"
    /\ spc' = "returned"
    /\ pc' = "script"
    /\ UNCHANGED <<clientState, channels, channel_index, results, faults,
                   exit_code>>

\* the __main__ block
Main ==
    /\ spc = "returned"
    /\ exit_code' = ExitCode(ret)
    /\ spc' = "exited"
    /\ UNCHANGED <<clientState, pc, channels, channel_index, results, faults,
                   ret>>

CaptureNext ==
    \/ Setup
    \/ NextChannel
    \/ AfterChannelInfo
    \/ AfterHarvest
    \/ Summary
    \/ Interrupt
    \/ Main
    \/ InfoReturn
    \/ Next

CaptureSpec == CaptureInit /\ [][CaptureNext]_vars

----------------------------------------------------------------------------
(* Properties *)

Done == pc = "done"
Returned == Done /\ outcome = "returned"

Ascending(q) == \A i, j \in 1..Len(q) : i < j => IdLT(q[i], q[j])
Descending(q) == \A i, j \in 1..Len(q) : i < j => IdLT(q[j], q[i])

RECURSIVE Flatten(_)
Flatten(qs) == IF qs = <<>> THEN <<>> ELSE Head(qs) \o Flatten(Tail(qs))

FullSuccess == {"end_of_history", "budget_reached", "lower_bound_reached"}

C2_Original ==
    (Done /\ total_limit # NoLimit /\ total_limit >= 0) => Len(result) <= total_limit

\* C2 amended: with a total budget B >= 1 the harvest returns at most B
\* messages; a budget of 0 is treated like no budget at all.
C2_PositiveBudget ==
    (Done /\ total_limit # NoLimit /\ total_limit >= 1) => Len(result) <= total_limit

C2_Witness ==
    /\ Returned
    /\ total_limit # NoLimit /\ total_limit >= 1
    /\ reason = "budget_reached"
    /\ Len(result) = total_limit
    /\ Len(pages) >= 2
    /\ Cardinality(channel) > total_limit

\* C3: with an upper-bound date D, every returned message has an identifier
\* less than or equal to the upper bound of D (23:59:59 UTC of D).
C3_UpperBound ==
    (Done /\ before_date \in Dates) =>
        \A i \in 1..Len(result) :
            IdLE(result[i], ShiftLeft22(before_date * MsPerDay + LastSecondMs))

\* C4: with a lower-bound date D, every returned message has an identifier
\* greater than or equal to the lower bound of D (midnight UTC of D),
\* whatever page it arrived in.
C4_LowerBound ==
    (Done /\ after_date \in Dates) =>
        \A i \in 1..Len(result) :
            IdGE(result[i], ShiftLeft22(after_date * MsPerDay))

C4_Witness ==
    /\ Returned
    /\ after_date \in Dates
    /\ reason = "lower_bound_reached"
    /\ Len(pages) >= 2
    /\ \E m \in channel : IdLT(m, ShiftLeft22(after_date * MsPerDay))
    /\ \E i \in 1..Len(messages) : IdLT(messages[i], ShiftLeft22(after_date * MsPerDay))

\* C5: when the first page fetch of a harvest fails fatally, the harvest
\* raises instead of returning a normal result.
C5_FirstPageRaises ==
    (Done /\ fetch_failed /\ requests = 1) => outcome = "raised"

\* C6: when page k >= 2 fails fatally after pages 1..k-1 succeeded, the
\* harvest raises nothing and returns exactly the messages kept from pages
\* 1..k-1.
C6_PartialResult ==
    (Done /\ fetch_failed /\ requests >= 2) =>
        /\ outcome = "returned"
        /\ Len(pages) = requests - 1
        /\ result = Flatten(pages)

C6_Witness ==
    /\ Returned
    /\ fetch_failed
    /\ requests = 3
    /\ Len(pages) = 2
    /\ Len(result) >= 2

\* C7: the result of a harvest lets the caller tell a harvest ended by a
\* fetch failure after at least one successful page (aborted) from a harvest
\* that ended by end_of_history, budget_reached or lower_bound_reached:
\* two harvests with the same arguments, one aborted and one a full
\* success, never return the same value.
C7_Distinguishable ==
    (Done /\ run = 2 /\ prev.reason = "aborted" /\ reason \in FullSuccess) =>
        (result # prev.result \/ outcome # prev.outcome)

\* C8: under sustained throttling a request is attempted at most
\* RetryTotal + 1 times, and after that many 429 answers the fetch has
\* failed and is not attempted again.
C8_BoundedRetry ==
    /\ attempts <= RetryTotal + 1
    /\ (attempts = RetryTotal + 1 /\ only429) => (pc # "send" /\ fetch_failed)

C8_Witness ==
    /\ attempts = RetryTotal + 1
    /\ only429
    /\ fetch_failed
    /\ pc = "page"

\* C9: a harvest in which some page request was answered 429 (at most
\* RetryTotal times in a row) before it succeeded returns the same result
\* as the same harvest in which every request succeeded at its first
\* attempt.
C9_ThrottlingTransparent ==
    (Done /\ run = 2 /\ prev.outcome # "none"
          /\ ~hard_fail /\ ~prev.hard_fail /\ throttled # prev.throttled) =>
        (result = prev.result /\ outcome = prev.outcome /\ reason = prev.reason)

C9_Witness ==
    /\ Returned /\ run = 2
    /\ ~hard_fail /\ ~prev.hard_fail
    /\ throttled /\ ~prev.throttled
    /\ Len(pages) >= 2
    /\ result = prev.result

\* C10: the time between two consecutive permitted turns of the rate
\* governor is never less than the effective minimum delay, which is
\* max(configured delay, 2.0 s).
C10_MinimumSpacing ==
    /\ rate_limit_delay = Max(configured_delay, MinDelay)
    /\ lastGap >= Max(configured_delay, MinDelay)

C10_Witness ==
    /\ requests >= 2
    /\ pc = "send"
    /\ slept
    /\ configured_delay < MinDelay
    /\ lastGap = MinDelay

----------------------------------------------------------------------------
(* Properties of paging, budget and window *)

NoWindow == after_date = NoDate /\ before_date = NoDate
WellFormedWindow == after_date # BadDate /\ before_date # BadDate

\* messages kept from the pages of the requests before request k
KeptBefore(k) == Len(Flatten(SubSeq(pages, 1, k - 1)))

LowerBoundOf(d) == ShiftLeft22(d * MsPerDay)
UpperBoundOf(d) == ShiftLeft22(d * MsPerDay + LastSecondMs)

\* C11: between two consecutive page requests of one harvest at least the
\* governor's minimum delay plus the 1.0 s safety delay elapses.
C11_DelaysAdd ==
    (pc = "send" /\ requests >= 2 /\ lastGap < Far) =>
        lastGap >= rate_limit_delay + SafetyDelay

\* C13: no message identifier appears more than once in the returned list.
C13_NoDuplicates ==
    Returned => \A i, j \in 1..Len(result) : result[i] = result[j] => i = j

C13_Witness ==
    /\ Returned
    /\ requests >= 3
    /\ Len(pages) >= 2
    /\ Len(result) = Cardinality(channel)
    /\ Len(result) >= 3

\* C14: with a budget B >= 1, no window and no fetch failure, a channel of
\* at least B messages yields exactly its B newest messages.
C14_ExactBudget ==
    (Returned /\ total_limit # NoLimit /\ total_limit >= 1 /\ NoWindow
              /\ ~fetch_failed /\ Cardinality(channel) >= total_limit) =>
        result = NewestFirst(channel, total_limit)

C14_Witness ==
    /\ Returned
    /\ total_limit = 2 /\ batch_size = 1
    /\ NoWindow /\ ~fetch_failed
    /\ Cardinality(channel) > total_limit
    /\ Len(result) = total_limit
    /\ throttled

\* C15: every page request asks for min(S, B - messages kept so far)
\* messages (S without a budget), no request is issued once the budget is
\* used up, and a channel of at least B messages without a window is
\* harvested with exactly ceil(B / S) requests.
C15_RequestSizes ==
    /\ \A k \in 1..Len(asked) :
          /\ asked[k] = IF total_limit # NoLimit /\ total_limit >= 1
                        THEN Min(batch_size, total_limit - KeptBefore(k))
                        ELSE batch_size
          /\ (total_limit # NoLimit /\ total_limit >= 1) => KeptBefore(k) < total_limit
    /\ (Returned /\ total_limit # NoLimit /\ total_limit >= 1 /\ NoWindow
                 /\ ~fetch_failed /\ Cardinality(channel) >= total_limit) =>
          requests = (total_limit + batch_size - 1) \div batch_size

C15_Witness ==
    /\ Returned
    /\ total_limit = 1 /\ batch_size = 2
    /\ asked = <<1>>
    /\ NoWindow /\ ~fetch_failed
    /\ Cardinality(channel) >= 3
    /\ Len(result) = 1

C17_EmptyChannel ==
    (Done /\ channel = {} /\ WellFormedWindow) =>
        (outcome = "returned" /\ result = <<>> /\ requests = 1)

C17_Witness ==
    /\ Returned
    /\ channel = {}
    /\ after_date \in Dates
    /\ total_limit = 0
    /\ requests = 1 /\ ~fetch_failed
    /\ result = <<>>

\* C18: with a lower bound, a page that contains a message below the bound
\* ends the harvest: its messages at or above the bound are kept, the rest
\* is dropped, and no further page request is issued.
C18_LowerBoundTruncates ==
    (after_date \in Dates /\ pc # "page"
        /\ \E i \in 1..Len(messages) : IdLT(messages[i], LowerBoundOf(after_date))) =>
        LET AtOrAbove(m) == IdGE(m, LowerBoundOf(after_date))
        IN  /\ Returned
            /\ reason = "lower_bound_reached"
            /\ Len(asked) = requests
            /\ result = Flatten(SubSeq(pages, 1, requests - 1))
                            \o SelectSeq(messages, AtOrAbove)

C18_Witness ==
    /\ Returned
    /\ reason = "lower_bound_reached"
    /\ requests = 2
    /\ Len(pages) = 2
    /\ Len(pages[2]) >= 1
    /\ Len(pages[2]) < Len(messages)

\* C19: with only an upper bound, the messages above it are skipped and the
\* harvest goes on backward: without budget and failure it returns the
\* channel's messages at or below the upper bound.
C19_UpperOnlySkips ==
    (Returned /\ before_date \in Dates /\ after_date = NoDate
              /\ ~HasBudget(total_limit) /\ ~fetch_failed) =>
        result = NewestFirst({m \in channel : IdLE(m, UpperBoundOf(before_date))},
                             Cardinality(channel))

\* C20: with both bounds given and the lower bound later than the upper
\* bound, the harvest returns zero messages and raises nothing.
C20_InvertedWindow ==
    (Done /\ after_date \in Dates /\ before_date \in Dates
          /\ after_date > before_date) =>
        (outcome = "returned" /\ result = <<>>)

----------------------------------------------------------------------------
(* Properties of the window dates and of the request parameters *)

\* C21: when after_date or before_date is malformed, the harvest ends
\* before any request is sent: no page request is issued, no HTTP attempt
\* is made and no turn of the rate governor is taken.
C21_NoRequestOnBadDate ==
    (after_date = BadDate \/ before_date = BadDate) =>
        /\ pc \in {"idle", "done"}
        /\ requests = 0 /\ sent = <<>> /\ attempts = 0
        /\ elapsed = Far /\ lastGap = Far /\ sleep_left = 0

C21_Witness ==
    /\ Done
    /\ after_date \in Dates /\ before_date = BadDate
    /\ channel # {}
    /\ reason = "invalid_date"
    /\ requests = 0

\* C22: a harvest given a malformed window bound fails with InvalidDate,
\* which reaches its caller; it does not complete as a normal harvest with
\* an empty result.
C22_InvalidDatePropagates ==
    (Done /\ (after_date = BadDate \/ before_date = BadDate)) => outcome = "raised"

Clamped(n) == IF n > 100 THEN 100 ELSE n

DirectReturned == call = "get_messages" /\ pc = "api_done"

\* C24: the `limit` parameter sent by get_messages is min(limit, 100) for
\* every requested limit; a limit above 100 is sent as 100 and the call is
\* answered with the page like any other, never rejected; the batch size of
\* get_messages_batch is clamped the same way.
C24_LimitClamped ==
    /\ \A k \in 1..Len(sent) : sent[k].limit = Clamped(asked[k])
    /\ call = "get_messages_batch" => batch_size = Clamped(batch_arg)
    /\ (DirectReturned /\ last_status = 200 /\ ~raw_defect) =>
          /\ outcome = "returned"
          /\ result = NewestFirst(channel, Clamped(asked[1]))

C24_Witness ==
    /\ DirectReturned
    /\ asked = <<150>>
    /\ sent[1].limit = 100
    /\ last_status = 200 /\ ~raw_defect
    /\ Len(result) = 4

\* C25: an HTTP 4xx answer other than 429 is fatal: the request is not
\* issued again, and the page fetch ends in a failure (AccessDenied,
\* NotFound) instead of handing a page to its caller.
C25_FatalSurfaces ==
    (DirectReturned /\ last_status = 403) =>
        (outcome = "raised" /\ fetch_failed)

\* C26: a raw record that lacks its id is dropped from the page returned by
\* get_messages, so that it can reach neither a harvest result nor the
\* pagination cursor: no message of a returned page is without its id.
C26_MalformedDropped ==
    DirectReturned => \A k \in 1..Len(result) : result[k] # None

\* the enabled channels that have a channel_id, in the order of config.yaml
attempted == SelectSeq(enabled_channels, HasId)

\* C27: in a capture run the failure of a channel (get_channel_info
\* reports no access, or an exception while its messages are captured) is
\* recorded as that channel's error entry, and every later enabled channel
\* with a channel_id is still attempted, in the order of the configuration:
\* a run that is not interrupted ends with one entry per such channel.
C27_FailureIsolated ==
    /\ Len(results) <= Len(attempted)
    /\ \A k \in 1..Len(results) :
          /\ results[k].name = attempted[k].name
          /\ results[k].status = "error" <=> results[k].name \in faults
    /\ spc \in {"info", "harvest"} =>
          /\ Len(results) < Len(attempted)
          /\ enabled_channels[channel_index].name = attempted[Len(results) + 1].name
    /\ spc = "summary" => Len(results) = Len(attempted)

C27_Witness ==
    /\ spc = "summary"
    /\ Len(results) = 2
    /\ faults = {1}
    /\ results[1].status = "error"
    /\ results[2].status = "success"

\* C28: the capture process exits with 130 exactly when it was
\* interrupted; otherwise with 0 exactly when at least one channel has a
\* success entry and no exception escaped, and with 1 when no channel
\* succeeded or an exception escaped.
C28_ExitCode ==
    spc = "exited" =>
        LET interrupted == ret = "interrupt"
            uncaught == ret = "exception"
            captured == \E k \in 1..Len(results) : results[k].status = "success"
        IN  /\ exit_code \in {0, 1, 130}
            /\ exit_code = 130 <=> interrupted
            /\ exit_code = 0 <=> (captured /\ ~interrupted /\ ~uncaught)
            /\ exit_code = 1 <=> (~interrupted /\ (uncaught \/ ~captured))

C28_Witness ==
    /\ spc = "exited"
    /\ exit_code = 0
    /\ Len(results) = 2
    /\ results[1].status = "empty"
    /\ results[2].status = "success"

\* C29: test_connection and get_channel_info never raise: a failed request
\* is returned as success = False with an error text, a request answered
\* 200 as success = True.
C29_InfoNeverRaises ==
    call \in InfoCalls =>
        /\ outcome # "raised"
        /\ pc = "api_done" =>
              /\ outcome = "returned"
              /\ info.success <=> last_status = 200
              /\ ~info.success => info.error \in {403, 429}

C29_Witness ==
    /\ call = "get_channel_info"
    /\ pc = "api_done"
    /\ outcome = "returned"
    /\ ~info.success
    /\ info.error = 403
    /\ attempts = 2

----------------------------------------------------------------------------
(* Properties of the cursor and of the lower bound *)

\* C31: the first page request of a harvest carries no `before`; every
\* later page request carries `before` equal to the identifier of the last
\* (oldest) message of the page returned before it, so that `before`
\* strictly decreases from one request to the next.
C31_BeforeCursor ==
    \A k \in 1..Len(sent) :
        /\ k = 1 => sent[k].before = None
        /\ k > 1 => /\ sent[k].before # None
                    /\ sent[k].before = pages[k - 1][Len(pages[k - 1])]
                    /\ \A m \in 1..Len(pages[k - 1]) :
                          IdLE(sent[k].before, pages[k - 1][m])
        /\ k > 2 => IdLT(sent[k].before, sent[k - 1].before)

C31_Witness ==
    /\ Returned
    /\ Len(sent) >= 3
    /\ Len(pages[1]) >= 2
    /\ sent[1].before = None
    /\ IdLT(sent[3].before, sent[2].before)

\* C32: every attempt to fetch a page is preceded by a governor turn of its
\* own, retries included, except the retry that follows a 429 wait: an
\* attempt sent without a governor turn since the attempt before it follows
\* a 429 answer.
C32_TurnPerAttempt ==
    [][(pc = "send" /\ attempts >= 1 /\ attempts' = attempts + 1)
          => last_status = 429]_vars

\* C33: after a request that was retried following a 429 answer, the next
\* governed request is sent no sooner than the minimum delay after that
\* retry attempt was sent: whenever the governor permits a turn, the latest
\* retry attempt lies at least the minimum delay back.
C33_RecordCoversRetry ==
    [][(pc \in {"rate_limit", "rl_sleep"} /\ pc' = "send")
          => since_retry >= rate_limit_delay]_vars

\* C34: when two harvest tasks run concurrently on one client, the time
\* between any two permitted turns of its governor, whichever task they
\* belong to, is never less than the minimum delay.
C34_SharedSpacing == lastGap >= rate_limit_delay

\* C35: on a finite, unchanging history whose messages all have an
\* identifier, with a platform that eventually answers every request,
\* get_messages_batch eventually returns, for every budget (none included),
\* batch size and date window.
C35_EventuallyReturns == <>(pc = "done" /\ outcome = "returned")

\* a harvest without budget returned after it walked a history of two pages
\* and met the empty page behind them
C35_Witness ==
    /\ Returned
    /\ total_limit = NoLimit
    /\ Len(pages) >= 2
    /\ reason = "end_of_history"
    /\ ~fetch_failed

\* C37: format_messages_markdown renders the messages oldest first, in
\* ascending order of their timestamps, whatever the order of the list it
\* was given, and the list itself is afterwards what it was before.
C37_SortedCopy ==
    fpc = "formatted" =>
        /\ \A a, b \in 1..Len(markdown) :
              a < b => Timestamp(markdown[a]) <= Timestamp(markdown[b])
        /\ {markdown[k] : k \in 1..Len(markdown)}
              = {given[k] : k \in 1..Len(given)} \ blank
        /\ Len(markdown) = Cardinality({given[k] : k \in 1..Len(given)} \ blank)
        /\ to_format = given

\* a list of at least three messages that was not in ascending order, two of
\* them of the same second, has been rendered in full
C37_Witness ==
    /\ fpc = "formatted"
    /\ Len(given) >= 3
    /\ blank = {}
    /\ \E a, b \in 1..Len(given) :
          a < b /\ Timestamp(given[a]) > Timestamp(given[b])
    /\ \E a, b \in 1..Len(given) :
          a # b /\ Timestamp(given[a]) = Timestamp(given[b])
    /\ Len(markdown) = Len(given)

\* C36: with a lower bound L, no upper bound, no budget and no fetch
\* failure, the harvest returns every message of the channel whose
\* identifier is at or above L.
C36_AllAboveLowerBound ==
    (Returned /\ after_date \in Dates /\ before_date = NoDate
              /\ total_limit = NoLimit /\ ~fetch_failed) =>
        \A m \in channel :
            IdGE(m, LowerBoundOf(after_date)) =>
                \E k \in 1..Len(result) : result[k] = m

====
